---- MODULE Spec2Model ----
(***************************************************************************)
(* A model of the chat client in src/public/script.js: the module-level   *)
(* state (currentImage, isLoading, messageHistory), the children of the   *)
(* messages area, the pending FileReader decodes and the suspended        *)
(* sendMessage activations, with one action per event handler or          *)
(* continuation of an await. The theme of the page (the data-theme        *)
(* attribute, the stored theme, the preference of the system) and          *)
(* formatMessageText, computed character by character, have their own      *)
(* specifications.                                                         *)
(*                                                                         *)
(* Text is a sequence of strings (characters for typed input and MIME     *)
(* types, whole words for fixed messages); an optional value (null,       *)
(* undefined, an absent JSON field) is a sequence of length 0 or 1.       *)
(* Presentation-only state that no handler reads (textarea height, scroll *)
(* position, focus, the drop-zone overlay) is not part of the model.      *)
(***************************************************************************)
EXTENDS Naturals, Integers, Sequences, FiniteSets, TLC

VARIABLES
    messageInput,    \* messageInput.value
    currentImage,    \* null (<<>>) or <<[base64, mimeType]>>
    previewSrc,      \* the preview shown in imagePreviewContainer, <<>> when hidden
    isLoading,
    sendBtnDisabled, \* sendBtn.disabled
    messageHistory,
    messagesArea,    \* the children of #messagesArea, in document order
    readers,         \* files whose FileReader decode has not settled yet
    calls,           \* sendMessage activations suspended at an await
    lastEvent,       \* the event or continuation that ran last, with its input
    dataTheme,       \* the data-theme attribute of <html>, <<>> when not set
    storedTheme,     \* localStorage.getItem('theme'), <<>> when null
    prefersDark,     \* matchMedia('(prefers-color-scheme: dark)').matches
    formatText,      \* the text handed to formatMessageText
    formatted        \* <<>>, or <<the HTML formatMessageText returned>>

\* the state of the chat, the theme of the page, and a call of the formatter
chatVars == <<messageInput, currentImage, previewSrc, isLoading, sendBtnDisabled,
              messageHistory, messagesArea, readers, calls>>
themeVars == <<dataTheme, storedTheme, prefersDark>>
formatVars == <<formatText, formatted>>

vars == <<messageInput, currentImage, previewSrc, isLoading, sendBtnDisabled,
          messageHistory, messagesArea, readers, calls, lastEvent,
          themeVars, formatVars>>

(* ------------------------------ bounds -------------------------------- *)

\* handlers that append nodes are offered while they fit within this
MaxRendered == 4
\* FileReader decodes pending at once
MaxReaders == 2
\* sendMessage activations suspended at once
MaxCalls == 2
\* pieces (a character or a bold marker) in a text handed to the formatter
MaxPieces == 5

(* ------------------------------- text --------------------------------- *)

None == <<>>
Some(x) == <<x>>

\* what the user may have typed: nothing, white space only (a space, a form
\* feed, a no-break space), text to be trimmed. A character that has no
\* escape in a string here goes by the name of its code point.
Texts == {<<>>, <<" ", "\f", "U+00A0">>, <<" ", "a", "\n">>}

\* WhiteSpace of ECMAScript: tab, vertical tab, form feed, the byte order
\* mark and the space separators of Unicode
WhiteSpace ==
    {"\t", "U+000B", "\f", "U+FEFF",
     " ", "U+00A0", "U+1680", "U+2000", "U+2001", "U+2002", "U+2003", "U+2004",
     "U+2005", "U+2006", "U+2007", "U+2008", "U+2009", "U+200A", "U+202F",
     "U+205F", "U+3000"}

\* LineTerminator of ECMAScript: line feed, carriage return, line separator,
\* paragraph separator
LineTerminators == {"\n", "\r", "U+2028", "U+2029"}

\* what String.prototype.trim strips
IsWhitespace(c) == c \in WhiteSpace \cup LineTerminators

RECURSIVE TrimStart(_)
TrimStart(s) ==
    IF s # <<>> /\ IsWhitespace(Head(s)) THEN TrimStart(Tail(s)) ELSE s

RECURSIVE TrimEnd(_)
TrimEnd(s) ==
    IF s # <<>> /\ IsWhitespace(s[Len(s)])
    THEN TrimEnd(SubSeq(s, 1, Len(s) - 1))
    ELSE s

\* variant: the input is used as typed
TrimNothing(s) == s
\* String.prototype.trim
Trim(s) == TrimEnd(TrimStart(s))

StartsWith(s, prefix) ==
    Len(s) >= Len(prefix) /\ SubSeq(s, 1, Len(prefix)) = prefix

\* a value used as a condition: '' is falsy, undefined/null (None) is falsy
Truthy(opt) == opt # None /\ opt[1] # <<>>

(* ------------------------------- files -------------------------------- *)

maxSize == 10 * 1024 * 1024

ImagePrefix == <<"i", "m", "a", "g", "e", "/">>
TypePng == ImagePrefix \o <<"p", "n", "g">>
TypeGif == ImagePrefix \o <<"g", "i", "f">>
TypeText == <<"t", "e", "x", "t", "/", "p", "l", "a", "i", "n">>
TypeNoSlash == <<"i", "m", "a", "g", "e">>

Files ==
    { [name |-> "limit.png", type |-> TypePng,     size |-> maxSize],
      [name |-> "small.gif", type |-> TypeGif,     size |-> 1],
      [name |-> "big.png",   type |-> TypePng,     size |-> maxSize + 1],
      [name |-> "notes.txt", type |-> TypeText,    size |-> 1],
      [name |-> "big.txt",   type |-> TypeText,    size |-> maxSize + 1],
      [name |-> "image",     type |-> TypeNoSlash, size |-> 1] }

\* file.type.startsWith('image/')
IsImageType(file) == StartsWith(file.type, ImagePrefix)

\* variant: the limit itself is too large
SizeCheckStrict(file) == file.size >= maxSize
\* file.size > maxSize
TooLarge(file) == file.size > maxSize

\* FileReader.readAsDataURL: a data URI carrying the type and the content
ReadAsDataURL(file) == [mime |-> file.type, payload |-> file.name]

InvalidFileType == <<"Please select a valid image file.">>
FileTooLarge == <<"Image size must be less than 10MB.">>
ReadError == <<"Failed to read image file.">>

(* ------------------------------ the DOM ------------------------------- *)

\* the element index.html ships (original) or the one clearChat writes
WelcomeNode(original) == [kind |-> "welcome", original |-> original]
TypingIndicator == [kind |-> "typing"]
ErrorNode(errorText) == [kind |-> "error", text |-> errorText]

CreateMessageElement(role, text, imageUrl) ==
    [kind |-> "message", role |-> role, text |-> text, image |-> imageUrl]

RECURSIVE RemoveFirst(_, _)
RemoveFirst(nodes, node) ==
    IF nodes = <<>> THEN <<>>
    ELSE IF Head(nodes) = node THEN Tail(nodes)
    ELSE <<Head(nodes)>> \o RemoveFirst(Tail(nodes), node)

\* variant: the typing indicator is left in place
KeepTypingIndicator(nodes) == nodes
\* document.getElementById('typingIndicator')?.remove()
RemoveTypingIndicator(nodes) == RemoveFirst(nodes, TypingIndicator)

\* welcomeMessage is bound once, to the element present at load
RemoveWelcomeMessage(nodes) == RemoveFirst(nodes, WelcomeNode(TRUE))

ShowErrorMessage(nodes, errorText) == Append(nodes, ErrorNode(errorText))

RemoveAt(s, i) == SubSeq(s, 1, i - 1) \o SubSeq(s, i + 1, Len(s))

(* --------------------------- initial state ---------------------------- *)

NoEvent == [op |-> "load"]

\* the chat after the script has run: the module-level state and the markup
InitChat ==
    /\ messageInput = <<>>
    /\ currentImage = None
    /\ previewSrc = None
    /\ isLoading = FALSE
    /\ sendBtnDisabled = FALSE
    /\ messageHistory = <<>>
    /\ messagesArea = <<WelcomeNode(TRUE)>>
    /\ readers = <<>>
    /\ calls = <<>>
    /\ lastEvent = NoEvent

\* the themes toggleTheme and the change listener write
Themes == {"light", "dark"}

\* the data-theme attribute the markup gives <html>: none
MarkupTheme == None

\* initializeTheme: the attribute it leaves, for the stored theme and the
\* preference of the system it reads
InitializeTheme(savedTheme, systemPrefersDark) ==
    IF savedTheme # None THEN savedTheme
    ELSE IF systemPrefersDark THEN Some("dark")
    ELSE MarkupTheme

\* the page loaded with this theme stored and this preference of the system
LoadTheme(savedTheme, systemPrefersDark) ==
    /\ storedTheme = savedTheme
    /\ prefersDark = systemPrefersDark
    /\ dataTheme = InitializeTheme(savedTheme, systemPrefersDark)

\* formatMessageText is not being looked at
NoFormatting ==
    /\ formatText = <<>>
    /\ formatted = None

\* the page loaded for the first time on a system that prefers light
Init ==
    /\ InitChat
    /\ LoadTheme(None, FALSE)
    /\ NoFormatting

(* --------------------------- image handling --------------------------- *)

\* what a file offer can change: the messages area and the pending decodes
Page == [messagesArea |-> messagesArea, readers |-> readers]

\* handleImageFile, up to reader.readAsDataURL(file): the page it leaves
HandleImageFile(page, file) ==
    IF ~IsImageType(file)
    THEN [page EXCEPT !.messagesArea = ShowErrorMessage(@, InvalidFileType)]
    ELSE IF TooLarge(file)
    THEN [page EXCEPT !.messagesArea = ShowErrorMessage(@, FileTooLarge)]
    ELSE [page EXCEPT !.readers = Append(@, file)]

\* room for the node or the decode a file offer may add
FileFits ==
    /\ Len(readers) < MaxReaders
    /\ Len(messagesArea) + Len(readers) < MaxRendered

\* the 'change' listener of fileInput
FileInputChange(file) ==
    /\ FileFits
    /\ LET after == HandleImageFile(Page, file)
       IN  /\ messagesArea' = after.messagesArea
           /\ readers' = after.readers
    /\ lastEvent' = [op |-> "change", file |-> file]
    /\ UNCHANGED <<themeVars, formatVars>>
    /\ UNCHANGED <<messageInput, currentImage, previewSrc, isLoading,
                   sendBtnDisabled, messageHistory, calls>>

\* handleDrop: the page it leaves; a drop that carries no file does nothing
HandleDrop(page, files) ==
    IF Len(files) > 0
    THEN IF IsImageType(files[1])
         THEN HandleImageFile(page, files[1])
         ELSE page
    ELSE page

\* where a drop can land: on the drop-zone overlay, or on the page outside it
DropTargets == {"overlay", "document"}

\* the 'drop' listeners the event reaches: the one of dropZoneOverlay and
\* then, as the event bubbles, the one of document; or the latter alone
DropListeners(target) == IF target = "overlay" THEN 2 ELSE 1

\* room for the nodes or the decodes the listeners of a drop may add
DropFits(target) ==
    /\ Len(readers) + DropListeners(target) <= MaxReaders
    /\ Len(messagesArea) + Len(readers) + DropListeners(target) <= MaxRendered

\* a drop: each listener it reaches calls handleDrop
Drop(files, target) ==
    /\ DropFits(target)
    /\ LET once == HandleDrop(Page, files)
           after == IF DropListeners(target) = 2 THEN HandleDrop(once, files) ELSE once
       IN  /\ messagesArea' = after.messagesArea
           /\ readers' = after.readers
    /\ lastEvent' = [op |-> "drop", files |-> files, target |-> target]
    /\ UNCHANGED <<themeVars, formatVars>>
    /\ UNCHANGED <<messageInput, currentImage, previewSrc, isLoading,
                   sendBtnDisabled, messageHistory, calls>>

\* reader.onload of the i-th pending decode
ReaderLoad(i) ==
    /\ i \in 1..Len(readers)
    /\ LET file == readers[i]
           base64Data == ReadAsDataURL(file)
       IN  /\ currentImage' = Some([base64 |-> base64Data, mimeType |-> file.type])
           /\ previewSrc' = Some(base64Data)
           /\ lastEvent' = [op |-> "onload", file |-> file, older |-> i - 1]
           /\ UNCHANGED <<themeVars, formatVars>>
    /\ readers' = RemoveAt(readers, i)
    /\ UNCHANGED <<messageInput, isLoading, sendBtnDisabled, messageHistory,
                   messagesArea, calls>>

\* reader.onerror of the i-th pending decode
ReaderError(i) ==
    /\ i \in 1..Len(readers)
    /\ messagesArea' = ShowErrorMessage(messagesArea, ReadError)
    /\ lastEvent' = [op |-> "onerror", file |-> readers[i]]
    /\ UNCHANGED <<themeVars, formatVars>>
    /\ readers' = RemoveAt(readers, i)
    /\ UNCHANGED <<messageInput, currentImage, previewSrc, isLoading,
                   sendBtnDisabled, messageHistory, calls>>

\* variant: the preview is left showing
RemoveImageKeepsPreview ==
    /\ currentImage' = None
    /\ previewSrc' = previewSrc
\* removeImage
RemoveImage ==
    /\ currentImage' = None
    /\ previewSrc' = None

\* the 'click' listener of removeImageBtn
RemoveImageClick ==
    /\ RemoveImage
    /\ lastEvent' = [op |-> "removeImage"]
    /\ UNCHANGED <<themeVars, formatVars>>
    /\ UNCHANGED <<messageInput, isLoading, sendBtnDisabled, messageHistory,
                   messagesArea, readers, calls>>

(* ------------------------- proxy responses ---------------------------- *)

\* a response body, as response.json() sees it: not JSON at all, the JSON
\* value null, or an object with an optional error field and an optional
\* choices[0].message.content (None when any link of that chain is missing)
JsonBody(parsable, isNull, error, content) ==
    [parsable |-> parsable, isNull |-> isNull, error |-> error, content |-> content]

Unparsable == JsonBody(FALSE, FALSE, None, None)
JsonNull == JsonBody(TRUE, TRUE, None, None)
EmptyObject == JsonBody(TRUE, FALSE, None, None)
RateLimited == <<"rate limited">>
Summary == <<"Summary: ...">>

Bodies ==
    { Unparsable, JsonNull, EmptyObject,
      JsonBody(TRUE, FALSE, Some(RateLimited), None),
      JsonBody(TRUE, FALSE, None, Some(Summary)),
      JsonBody(TRUE, FALSE, None, Some(<<>>)) }

Statuses == {200, 500}

\* response.ok
Ok(status) == status >= 200 /\ status <= 299

TransportMessage == <<"Failed to fetch">>
SyntaxErrorMessage == <<"Unexpected token in JSON">>
TypeErrorMessage == <<"Cannot read properties of null">>
StatusMessage(status) == <<"Request failed with status ", ToString(status)>>
NoResponse == <<"No response received.">>

\* `Failed to send message: ${error.message}`
FailedToSend(message) == <<"Failed to send message: ">> \o message

\* JSON.stringify({ messages: messageHistory }): the history as it is now
RequestBody(history) == [messages |-> history]

(* ------------------------------ sending ------------------------------- *)

\* variant: the image part is pushed before the text part
ContentImageFirst(text, image) ==
    (IF image # None
     THEN <<[type |-> "image_url", image_url |-> [url |-> image[1].base64]]>>
     ELSE <<>>)
    \o (IF text # <<>> THEN <<[type |-> "text", text |-> text]>> ELSE <<>>)
\* the content array sendMessage builds
UserContent(text, image) ==
    (IF text # <<>> THEN <<[type |-> "text", text |-> text]>> ELSE <<>>)
    \o (IF image # None
        THEN <<[type |-> "image_url", image_url |-> [url |-> image[1].base64]]>>
        ELSE <<>>)

\* variant: no guard on isLoading
NeverBlocked == FALSE
\* if (isLoading) return;
SendBlocked == isLoading

\* if (!text && !currentImage) return;
NothingToSend(text, image) == text = <<>> /\ image = None

\* room for the two nodes and the activation a submit adds
SubmitFits ==
    /\ Len(messagesArea) + Len(readers) + 2 <= MaxRendered
    /\ Len(calls) < MaxCalls

\* variant: the input and the attachment are left as they are
KeepInputs ==
    /\ messageInput' = messageInput
    /\ currentImage' = currentImage
    /\ previewSrc' = previewSrc
\* messageInput.value = ''; removeImage();
ClearInputs ==
    /\ messageInput' = <<>>
    /\ RemoveImage

\* sendMessage, up to the await of fetch
SendMessage(text, image) ==
    IF SendBlocked
    THEN UNCHANGED <<messageInput, currentImage, previewSrc, isLoading,
                     sendBtnDisabled, messageHistory, messagesArea, calls>>
    ELSE LET userMessage ==
                 CreateMessageElement("user", text,
                     IF image # None THEN Some(image[1].base64) ELSE None)
             history == Append(messageHistory,
                               [role |-> "user", content |-> UserContent(text, image)])
         IN  /\ messagesArea' =
                    Append(Append(RemoveWelcomeMessage(messagesArea), userMessage),
                           TypingIndicator)
             /\ messageHistory' = history
             /\ ClearInputs
             /\ isLoading' = TRUE
             /\ sendBtnDisabled' = TRUE
             /\ calls' = Append(calls, [stage |-> "fetch",
                                        request |-> RequestBody(history),
                                        status |-> 0, body |-> Unparsable])

\* handleSubmit
HandleSubmit ==
    LET text == Trim(messageInput)
    IN  IF NothingToSend(text, currentImage)
        THEN UNCHANGED <<messageInput, currentImage, previewSrc, isLoading,
                         sendBtnDisabled, messageHistory, messagesArea, calls>>
        ELSE SendMessage(text, currentImage)

\* whether handleSubmit would get past both early returns
Accepted == ~NothingToSend(Trim(messageInput), currentImage) /\ ~SendBlocked

\* the user edits the textarea
Input(value) ==
    /\ value # messageInput
    /\ messageInput' = value
    /\ lastEvent' = [op |-> "input"]
    /\ UNCHANGED <<themeVars, formatVars>>
    /\ UNCHANGED <<currentImage, previewSrc, isLoading, sendBtnDisabled,
                   messageHistory, messagesArea, readers, calls>>

\* the 'click' listener of sendBtn; a disabled button dispatches no click
SendBtnClick ==
    /\ ~sendBtnDisabled
    /\ Accepted => SubmitFits
    /\ HandleSubmit
    /\ lastEvent' = [op |-> "click", accepted |-> Accepted]
    /\ UNCHANGED <<themeVars, formatVars>>
    /\ UNCHANGED readers

\* the 'keydown' listener of messageInput, for Enter without Shift
EnterKey ==
    /\ Accepted => SubmitFits
    /\ HandleSubmit
    /\ lastEvent' = [op |-> "enter", accepted |-> Accepted]
    /\ UNCHANGED <<themeVars, formatVars>>
    /\ UNCHANGED readers

(* ----------------------------- responses ------------------------------ *)

\* the catch block
Catch(message) ==
    messagesArea' =
        ShowErrorMessage(RemoveTypingIndicator(messagesArea), FailedToSend(message))

\* variant: no cleanup after the try block
KeepLoading ==
    /\ isLoading' = isLoading
    /\ sendBtnDisabled' = sendBtnDisabled
\* the finally block
Finally ==
    /\ isLoading' = FALSE
    /\ sendBtnDisabled' = FALSE

\* fetch rejects: a transport error
FetchReject(i) ==
    /\ i \in 1..Len(calls)
    /\ calls[i].stage = "fetch"
    /\ Catch(TransportMessage)
    /\ Finally
    /\ calls' = RemoveAt(calls, i)
    /\ lastEvent' = [op |-> "reject"]
    /\ UNCHANGED <<themeVars, formatVars>>
    /\ UNCHANGED <<messageInput, currentImage, previewSrc, messageHistory, readers>>

\* fetch resolves with a response; sendMessage goes on to await response.json()
FetchResolve(i, status, body) ==
    /\ i \in 1..Len(calls)
    /\ calls[i].stage = "fetch"
    /\ messagesArea' = RemoveTypingIndicator(messagesArea)
    /\ calls' = [calls EXCEPT ![i] =
                    [stage |-> IF Ok(status) THEN "data" ELSE "errorData",
                     request |-> calls[i].request,
                     status |-> status, body |-> body]]
    /\ lastEvent' = [op |-> "response"]
    /\ UNCHANGED <<themeVars, formatVars>>
    /\ UNCHANGED <<messageInput, currentImage, previewSrc, isLoading,
                   sendBtnDisabled, messageHistory, readers>>

\* response.json().catch(() => ({}))
ErrorData(body) == IF body.parsable THEN body ELSE EmptyObject

\* the message of the error the rest of the try block throws, None if none
Thrown(call) ==
    IF call.stage = "errorData"
    THEN IF ErrorData(call.body).isNull
         THEN Some(TypeErrorMessage)
         ELSE IF Truthy(ErrorData(call.body).error)
         THEN Some(ErrorData(call.body).error[1])
         ELSE Some(StatusMessage(call.status))
    ELSE IF ~call.body.parsable THEN Some(SyntaxErrorMessage)
    ELSE IF call.body.isNull THEN Some(TypeErrorMessage)
    ELSE None

\* data.choices?.[0]?.message?.content || 'No response received.'
AssistantContent(data) == IF Truthy(data.content) THEN data.content[1] ELSE NoResponse

\* variant: the assistant entry is written over the last entry
PushOverLast(history, assistantContent) ==
    IF history = <<>>
    THEN <<[role |-> "assistant",
            content |-> <<[type |-> "text", text |-> assistantContent]>>]>>
    ELSE [history EXCEPT ![Len(history)] =
              [role |-> "assistant",
               content |-> <<[type |-> "text", text |-> assistantContent]>>]]
\* variant: the assistant entry is pushed twice
PushTwice(history, assistantContent) ==
    Append(Append(history, [role |-> "assistant",
                            content |-> <<[type |-> "text", text |-> assistantContent]>>]),
           [role |-> "assistant",
            content |-> <<[type |-> "text", text |-> assistantContent]>>])
\* messageHistory.push({ role: 'assistant', content: [...] })
PushAssistant(history, assistantContent) ==
    Append(history, [role |-> "assistant",
                     content |-> <<[type |-> "text", text |-> assistantContent]>>])

\* response.json() settles; the rest of sendMessage runs
JsonSettle(i) ==
    /\ i \in 1..Len(calls)
    /\ calls[i].stage \in {"data", "errorData"}
    /\ IF Thrown(calls[i]) # None
       THEN /\ Catch(Thrown(calls[i])[1])
            /\ UNCHANGED messageHistory
       ELSE LET assistantContent == AssistantContent(calls[i].body)
            IN  /\ messageHistory' = PushAssistant(messageHistory, assistantContent)
                /\ messagesArea' =
                       Append(messagesArea,
                              CreateMessageElement("assistant", assistantContent, None))
    /\ Finally
    /\ calls' = RemoveAt(calls, i)
    /\ lastEvent' = [op |-> "json"]
    /\ UNCHANGED <<themeVars, formatVars>>
    /\ UNCHANGED <<messageInput, currentImage, previewSrc, readers>>

(* ------------------------------- reset -------------------------------- *)

\* variant: the attached image survives the reset
ClearChatKeepsAttachment ==
    /\ messageHistory' = <<>>
    /\ messagesArea' = <<WelcomeNode(FALSE)>>
    /\ messageInput' = <<>>
    /\ UNCHANGED <<currentImage, previewSrc>>
\* clearChat
ClearChat ==
    /\ messageHistory' = <<>>
    /\ messagesArea' = <<WelcomeNode(FALSE)>>
    /\ ClearInputs

\* the 'click' listener of clearChatBtn
ClearChatClick ==
    /\ ClearChat
    /\ lastEvent' = [op |-> "clearChat"]
    /\ UNCHANGED <<themeVars, formatVars>>
    /\ UNCHANGED <<isLoading, sendBtnDisabled, readers, calls>>

(* --------------------------- specification ---------------------------- *)

\* the file the conversation is checked with
ChatFiles == {file \in Files : file.name = "limit.png"}

\* the conversation in full: every text, status and body, one attachable file
Next ==
    \/ \E value \in Texts : Input(value)
    \/ SendBtnClick
    \/ EnterKey
    \/ \E file \in ChatFiles : FileInputChange(file)
    \/ \E dropped \in {<<>>} \cup {<<file>> : file \in ChatFiles},
          target \in DropTargets : Drop(dropped, target)
    \/ \E i \in 1..MaxReaders : ReaderLoad(i)
    \/ \E i \in 1..MaxReaders : ReaderError(i)
    \/ RemoveImageClick
    \/ \E i \in 1..MaxCalls : FetchReject(i)
    \/ \E i \in 1..MaxCalls, status \in Statuses, body \in Bodies :
           FetchResolve(i, status, body)
    \/ \E i \in 1..MaxCalls : JsonSettle(i)
    \/ ClearChatClick

Spec == Init /\ [][Next]_vars

\* the response the attachment is checked with
FilesBodies == {JsonBody(TRUE, FALSE, None, Some(Summary))}

\* attachment in full: every file on both paths, sent without text by the
\* Enter key and answered successfully
NextFiles ==
    \/ EnterKey
    \/ \E file \in Files : FileInputChange(file)
    \/ \E dropped \in {<<>>} \cup {<<file>> : file \in Files},
          target \in DropTargets : Drop(dropped, target)
    \/ \E i \in 1..MaxReaders : ReaderLoad(i)
    \/ \E i \in 1..MaxReaders : ReaderError(i)
    \/ RemoveImageClick
    \/ \E i \in 1..MaxCalls, body \in FilesBodies : FetchResolve(i, 200, body)
    \/ \E i \in 1..MaxCalls : JsonSettle(i)
    \/ ClearChatClick

SpecFiles == Init /\ [][NextFiles]_vars

(* ---------------------------- formatting ------------------------------ *)

\* HTML is text too: a sequence of characters
Chars(word) ==
    CASE word = "&amp;" -> <<"&", "a", "m", "p", ";">>
      [] word = "&lt;" -> <<"&", "l", "t", ";">>
      [] word = "&gt;" -> <<"&", "g", "t", ";">>
      [] word = "&nbsp;" -> <<"&", "n", "b", "s", "p", ";">>
      [] word = "<strong>" -> <<"<", "s", "t", "r", "o", "n", "g", ">">>
      [] word = "</strong>" -> <<"<", "/", "s", "t", "r", "o", "n", "g", ">">>
      [] word = "<br>" -> <<"<", "b", "r", ">">>

\* variant: the text is taken for HTML as it is
EscapeNothing(text) == text
\* escapeHtml: the innerHTML of a text node holding the text, in which &, <,
\* > and the no-break space are written as entities
RECURSIVE EscapeHtml(_)
EscapeHtml(text) ==
    IF text = <<>> THEN <<>>
    ELSE (CASE Head(text) = "&" -> Chars("&amp;")
            [] Head(text) = "<" -> Chars("&lt;")
            [] Head(text) = ">" -> Chars("&gt;")
            [] Head(text) = "U+00A0" -> Chars("&nbsp;")
            [] OTHER -> <<Head(text)>>)
         \o EscapeHtml(Tail(text))

\* the lengths the group of /\*\*(.*?)\*\*/ can take for a match at the start
\* of s: the dot matches anything but a line terminator
BoldGroups(s) ==
    {k \in 0..(Len(s) - 4) :
        /\ s[1] = "*" /\ s[2] = "*"
        /\ \A j \in 3..(2 + k) : s[j] \notin LineTerminators
        /\ s[3 + k] = "*" /\ s[4 + k] = "*"}

\* the length the lazy group does take
Shortest(lengths) == CHOOSE k \in lengths : \A other \in lengths : k <= other

\* .replace(/\*\*(.*?)\*\*/g, '<strong>$1</strong>'): the matches are looked for
\* from left to right, each from where the one before it ended
RECURSIVE ReplaceBold(_)
ReplaceBold(s) ==
    IF s = <<>> THEN <<>>
    ELSE IF BoldGroups(s) # {}
    THEN LET k == Shortest(BoldGroups(s))
         IN  Chars("<strong>") \o SubSeq(s, 3, 2 + k) \o Chars("</strong>")
             \o ReplaceBold(SubSeq(s, 5 + k, Len(s)))
    ELSE <<Head(s)>> \o ReplaceBold(Tail(s))

\* .replace(/\n/g, '<br>')
RECURSIVE ReplaceLineBreaks(_)
ReplaceLineBreaks(s) ==
    IF s = <<>> THEN <<>>
    ELSE (IF Head(s) = "\n" THEN Chars("<br>") ELSE <<Head(s)>>)
         \o ReplaceLineBreaks(Tail(s))

\* formatMessageText
FormatMessageText(text) == ReplaceLineBreaks(ReplaceBold(EscapeHtml(text)))

\* what the texts formatted are made of: the characters HTML and the
\* formatter give a meaning to, two ordinary characters (a letter and the
\* no-break space), and the bold marker
FormatPieces ==
    {<<"<">>, <<">">>, <<"&">>, <<"*">>, <<"\n">>, <<"a">>, <<"U+00A0">>,
     <<"*", "*">>}

\* the texts of at most n pieces
RECURSIVE PieceTexts(_)
PieceTexts(n) ==
    IF n = 0 THEN {<<>>}
    ELSE LET shorter == PieceTexts(n - 1)
         IN  shorter \cup {text \o piece : text \in shorter, piece \in FormatPieces}

\* a text is about to be formatted
InitFormat ==
    /\ InitChat
    /\ LoadTheme(None, FALSE)
    /\ formatText \in PieceTexts(MaxPieces)
    /\ formatted = None

\* formatMessageText(text) is called, as createMessageElement does for the
\* text of a message
FormatMessage ==
    /\ formatted = None
    /\ formatted' = Some(FormatMessageText(formatText))
    /\ lastEvent' = [op |-> "format"]
    /\ UNCHANGED <<chatVars, themeVars, formatText>>

NextFormat == FormatMessage

SpecFormat == InitFormat /\ [][NextFormat]_vars

(* ------------------------------- theme -------------------------------- *)

\* the theme the stylesheet shows: the one the data-theme attribute names,
\* light when the attribute is not set
DisplayedTheme == IF dataTheme = None THEN "light" ELSE dataTheme[1]

\* variant: the new theme is applied but not saved
ToggleThemeUnsaved ==
    /\ dataTheme' = Some(IF dataTheme = Some("dark") THEN "light" ELSE "dark")
    /\ storedTheme' = storedTheme
\* toggleTheme
ToggleTheme ==
    LET currentTheme == dataTheme
        newTheme == IF currentTheme = Some("dark") THEN "light" ELSE "dark"
    IN  /\ dataTheme' = Some(newTheme)
        /\ storedTheme' = Some(newTheme)

\* the 'click' listener of themeToggle
ThemeToggleClick ==
    /\ ToggleTheme
    /\ lastEvent' = [op |-> "toggleTheme"]
    /\ UNCHANGED <<chatVars, prefersDark, formatVars>>

\* the 'change' listener of the prefers-color-scheme media query: the system
\* went over to the other colour scheme
ColorSchemeChange ==
    /\ prefersDark' = ~prefersDark
    /\ IF storedTheme = None
       THEN dataTheme' = Some(IF prefersDark' THEN "dark" ELSE "light")
       ELSE dataTheme' = dataTheme
    /\ lastEvent' = [op |-> "schemeChange"]
    /\ UNCHANGED <<chatVars, storedTheme, formatVars>>

\* a page load: any theme an earlier session saved, either system preference
InitTheme ==
    /\ InitChat
    /\ \E savedTheme \in {None} \cup {Some(theme) : theme \in Themes},
          systemPrefersDark \in BOOLEAN :
           LoadTheme(savedTheme, systemPrefersDark)
    /\ NoFormatting

\* the theme handlers among typing and resets of the conversation
NextTheme ==
    \/ ThemeToggleClick
    \/ ColorSchemeChange
    \/ \E value \in Texts : Input(value)
    \/ ClearChatClick

SpecTheme == InitTheme /\ [][NextTheme]_vars

(* ------------------------ vocabulary of the claims -------------------- *)

\* the text consists of white space only (so its trimmed form is empty)
Blank(s) ==
    \A k \in 1..Len(s) :
        s[k] \in {" ", "\n", "\t", "\r", "\f", "U+000B", "U+00A0", "U+FEFF",
                  "U+1680", "U+2000", "U+2001", "U+2002", "U+2003", "U+2004",
                  "U+2005", "U+2006", "U+2007", "U+2008", "U+2009", "U+200A",
                  "U+2028", "U+2029", "U+202F", "U+205F", "U+3000"}

\* t is s without its leading and trailing white space
IsTrimOf(t, s) ==
    \E a \in 1..(Len(s) + 1), b \in 0..Len(s) :
        /\ t = SubSeq(s, a, b)
        /\ Blank(SubSeq(s, 1, a - 1))
        /\ Blank(SubSeq(s, b + 1, Len(s)))
        /\ t # <<>> => ~Blank(<<t[1]>>) /\ ~Blank(<<t[Len(t)]>>)

\* this step is a submit: a click on the send button or the Enter key
SubmitStep == lastEvent'.op \in {"click", "enter"}

\* this step is a submit made with something to send and nothing in flight
AcceptedSubmitStep ==
    /\ SubmitStep
    /\ ~isLoading
    /\ ~(Blank(messageInput) /\ currentImage = None)

\* this step ends a sendMessage activation: its request has completed
CompletionStep == lastEvent'.op \in {"reject", "json"}

\* the activation a completion step ends
Completed(call) == \E i \in 1..Len(calls) : calls[i] = call /\ calls' = RemoveAt(calls, i)

\* the requests sent and not answered yet
InFlight == {i \in 1..Len(calls) : calls[i].stage = "fetch"}

(* ------------------------------- claims ------------------------------- *)

\* C1: at most one network request is in flight, and a submit (click or
\* Enter) made while isLoading is true appends nothing to messageHistory,
\* issues no request and leaves nothing behind to run later: the whole
\* state of the page is unchanged by it.
C1_SingleRequestInFlight ==
    /\ [](Cardinality(InFlight) <= 1 /\ Len(calls) <= 1)
    /\ [][(SubmitStep /\ isLoading) =>
            UNCHANGED <<messageInput, currentImage, previewSrc, isLoading,
                        sendBtnDisabled, messageHistory, messagesArea, readers,
                        calls>>]_vars

\* C1 witness: Enter was pressed with text in the input while a request was
\* in flight, and the text is still there with that one request pending.
C1_Witness ==
    /\ lastEvent.op = "enter"
    /\ isLoading
    /\ ~Blank(messageInput)
    /\ Len(calls) = 1 /\ calls[1].stage = "fetch"
    /\ Len(messageHistory) = 1

\* C2: an accepted submit appends exactly one user entry, and the request it
\* issues already carries that entry; the completion of a request appends
\* exactly one assistant entry when the call succeeded (a 2xx status and a
\* body that parses as JSON) and nothing otherwise; no other step of
\* sendMessage appends anything.
C2_OneUserOneAssistant ==
    [][/\ AcceptedSubmitStep =>
            /\ Len(messageHistory') = Len(messageHistory) + 1
            /\ SubSeq(messageHistory', 1, Len(messageHistory)) = messageHistory
            /\ messageHistory'[Len(messageHistory')].role = "user"
            /\ Len(calls') = Len(calls) + 1
            /\ calls'[Len(calls')].stage = "fetch"
            /\ calls'[Len(calls')].request.messages = messageHistory'
       /\ lastEvent'.op = "response" => messageHistory' = messageHistory
       /\ CompletionStep =>
            \E call \in {calls[i] : i \in 1..Len(calls)} :
                /\ Completed(call)
                /\ IF call.stage = "data" /\ call.body.parsable
                   THEN /\ Len(messageHistory') = Len(messageHistory) + 1
                        /\ SubSeq(messageHistory', 1, Len(messageHistory)) = messageHistory
                        /\ messageHistory'[Len(messageHistory')].role = "assistant"
                   ELSE messageHistory' = messageHistory
      ]_vars

\* C3: when a request completes, whatever the outcome, isLoading is false and
\* the send button is enabled afterwards; and a submit with non-blank text
\* made when nothing is in flight is accepted (it appends its user entry).
C3_LoadingAlwaysReset ==
    [][/\ CompletionStep => (~isLoading' /\ ~sendBtnDisabled')
       /\ (SubmitStep /\ calls = <<>> /\ ~Blank(messageInput)) =>
            /\ Len(messageHistory') = Len(messageHistory) + 1
            /\ Len(calls') = 1
      ]_vars

\* C3 witness: a 2xx response whose body did not parse was handled (its error
\* bubble is the last node), and the submit after it was accepted.
C3_Witness ==
    /\ lastEvent.op \in {"click", "enter"}
    /\ isLoading
    /\ Len(messagesArea) = 4
    /\ messagesArea[2] = ErrorNode(FailedToSend(SyntaxErrorMessage))
    /\ messagesArea[3].kind = "message"
    /\ Len(messageHistory) = 2

\* the error bubbles among the nodes
ErrorBubbles(nodes) == {k \in 1..Len(nodes) : nodes[k].kind = "error"}

\* the text ends with the words given
EndsWith(text, words) ==
    /\ Len(text) >= Len(words)
    /\ SubSeq(text, Len(text) - Len(words) + 1, Len(text)) = words

\* C4: when the proxy call fails (transport error, or a non-2xx status),
\* handling the failure renders exactly one error bubble, which carries the
\* failure reason (the error field of the response when it has one, a
\* generic status message otherwise), and appends nothing to messageHistory.
C4_FailureBubble ==
    [][CompletionStep =>
         \A call \in {calls[i] : i \in 1..Len(calls)} :
            (Completed(call) /\ call.stage \in {"fetch", "errorData"}) =>
                LET reason ==
                        IF call.stage = "fetch" THEN <<"Failed to fetch">>
                        ELSE IF call.body.parsable /\ call.body.error # None
                        THEN call.body.error[1]
                        ELSE <<"Request failed with status ", ToString(call.status)>>
                    last == messagesArea'[Len(messagesArea')]
                IN  /\ Cardinality(ErrorBubbles(messagesArea')) =
                           Cardinality(ErrorBubbles(messagesArea)) + 1
                    /\ last.kind = "error"
                    /\ EndsWith(last.text, reason)
                    /\ messageHistory' = messageHistory
      ]_vars

\* C5: a submit made when the input holds white space only and no image is
\* attached changes nothing: not messageHistory, isLoading, the rendered
\* nodes or the requests, nor anything else of the page.
C5_EmptySubmitIsNoOp ==
    [][(SubmitStep /\ Blank(messageInput) /\ currentImage = None) =>
            UNCHANGED <<messageInput, currentImage, previewSrc, isLoading,
                        sendBtnDisabled, messageHistory, messagesArea, readers,
                        calls>>]_vars

\* C5 witness: Enter was pressed on an input of blanks with no image and
\* nothing in flight; the blanks are still there and nothing was sent.
C5_Witness ==
    /\ lastEvent.op = "enter"
    /\ messageInput = <<" ", "\f", "U+00A0">>
    /\ currentImage = None
    /\ ~isLoading
    /\ calls = <<>>
    /\ messageHistory = <<>>

\* C6: right after clearChat, from whatever state it was invoked in,
\* messageHistory is empty, no image is attached, the input is empty and the
\* welcome placeholder is the only node rendered.
C6_ResetClearsAll ==
    lastEvent.op = "clearChat" =>
        /\ messageHistory = <<>>
        /\ currentImage = None
        /\ previewSrc = None
        /\ messageInput = <<>>
        /\ Len(messagesArea) = 1
        /\ messagesArea[1].kind = "welcome"

\* C6 witness: clearChat has just run while a request was in flight and a
\* decode was pending.
C6_Witness ==
    /\ lastEvent.op = "clearChat"
    /\ isLoading
    /\ Len(calls) = 1 /\ calls[1].stage = "fetch"
    /\ readers # <<>>

\* the type of the file begins with image/
HasImageType(file) ==
    /\ Len(file.type) >= 6
    /\ SubSeq(file.type, 1, 6) = <<"i", "m", "a", "g", "e", "/">>

\* this step hands the file to handleImageFile: the picker offered it, or it
\* was dropped and handleDrop passed it on
OfferStep(file) ==
    \/ lastEvent' = [op |-> "change", file |-> file]
    \/ /\ lastEvent'.op = "drop"
       /\ lastEvent'.files = <<file>>
       /\ HasImageType(file)

\* the calls of handleImageFile an offer step makes: one, or two for a drop
\* on the overlay, which both drop listeners handle
OfferCalls ==
    IF lastEvent'.op = "drop" /\ lastEvent'.target = "overlay" THEN 2 ELSE 1

\* C7: handleImageFile rejects a file of more than 10*1024*1024 bytes and a
\* file whose type does not begin with image/ (no decode is started, one
\* error bubble is rendered by the call: InvalidFileType when the type is
\* wrong, FileTooLarge otherwise); it accepts an image of exactly
\* 10*1024*1024 bytes (the call starts one decode); and a rejection or a
\* failed decode leaves the attached image and messageHistory as they were.
C7_FileValidation ==
    [][/\ \A file \in Files :
            OfferStep(file) =>
                IF ~HasImageType(file) \/ file.size > 10485760
                THEN /\ readers' = readers
                     /\ messagesArea' =
                            messagesArea
                            \o [call \in 1..OfferCalls |->
                                   ErrorNode(IF ~HasImageType(file)
                                             THEN InvalidFileType
                                             ELSE FileTooLarge)]
                     /\ currentImage' = currentImage
                     /\ messageHistory' = messageHistory
                ELSE /\ readers' = readers \o [call \in 1..OfferCalls |-> file]
                     /\ messagesArea' = messagesArea
       /\ lastEvent'.op = "onerror" =>
            /\ messagesArea' = Append(messagesArea, ErrorNode(ReadError))
            /\ currentImage' = currentImage
            /\ messageHistory' = messageHistory
      ]_vars

\* C7 witness: an image of exactly the limit is attached, a message has been
\* sent, and the picker has just offered an image one byte over the limit,
\* which was turned down with FileTooLarge.
C7_Witness ==
    /\ lastEvent.op = "change"
    /\ lastEvent.file.size = 10485761
    /\ HasImageType(lastEvent.file)
    /\ currentImage # None
    /\ currentImage[1].base64.payload = "limit.png"
    /\ messageHistory # <<>>
    /\ messagesArea[Len(messagesArea)] = ErrorNode(FileTooLarge)

\* C8: on both paths by which a file is offered (the picker's change event
\* and a drop), a file whose type does not begin with image/ gets an
\* InvalidFileType error bubble.
C8_InvalidTypeOnEveryPath ==
    [][\A file \in Files :
          (/\ \/ lastEvent' = [op |-> "change", file |-> file]
              \/ lastEvent'.op = "drop" /\ lastEvent'.files = <<file>>
           /\ ~HasImageType(file)) =>
              messagesArea' = Append(messagesArea, ErrorNode(InvalidFileType))
      ]_vars

\* C9: the user entry of an accepted submit has a text part iff the trimmed
\* text is not empty and an image part iff an image is attached, the text
\* part first; the request carries the whole history, in order, with that
\* entry last.
C9_ContentAndRequestBody ==
    [][AcceptedSubmitStep =>
         \E entry \in {messageHistory'[k] : k \in 1..Len(messageHistory')} :
            /\ messageHistory' = Append(messageHistory, entry)
            /\ entry.role = "user"
            /\ Len(entry.content) =
                   (IF Blank(messageInput) THEN 0 ELSE 1)
                   + (IF currentImage = None THEN 0 ELSE 1)
            /\ ~Blank(messageInput) =>
                   /\ entry.content[1].type = "text"
                   /\ IsTrimOf(entry.content[1].text, messageInput)
            /\ currentImage # None =>
                   /\ entry.content[Len(entry.content)].type = "image_url"
                   /\ entry.content[Len(entry.content)].image_url.url =
                          currentImage[1].base64
            /\ calls'[Len(calls')].stage = "fetch"
            /\ calls'[Len(calls')].request = [messages |-> messageHistory']
      ]_vars

\* C9 witness: the request in flight carries a history of three entries, the
\* last a user entry with a text part followed by an image part.
C9_Witness ==
    /\ Len(calls) = 1 /\ calls[1].stage = "fetch"
    /\ Len(messageHistory) = 3
    /\ calls[1].request.messages = messageHistory
    /\ Len(messageHistory[3].content) = 2
    /\ messageHistory[3].content[1].text = <<"a">>

\* C10: right after an accepted submit the input is empty, no image is
\* attached and isLoading is true.
C10_AfterSubmit ==
    [][AcceptedSubmitStep =>
         /\ messageInput' = <<>>
         /\ currentImage' = None
         /\ previewSrc' = None
         /\ isLoading'
      ]_vars

\* C10 witness: a click has just sent text with an image; the request is in
\* flight, the input and the attachment are empty and isLoading is true.
C10_Witness ==
    /\ lastEvent.op = "click"
    /\ Len(calls) = 1 /\ calls[1].stage = "fetch"
    /\ Len(messageHistory[Len(messageHistory)].content) = 2
    /\ messageInput = <<>>
    /\ currentImage = None
    /\ isLoading

\* C11: when the response is successful (2xx with a body that is JSON), the
\* completion appends one assistant entry whose content is a single text
\* part: choices[0].message.content when it is present and non-empty, the
\* literal "No response received." otherwise; and it adds no error bubble.
C11_AssistantContent ==
    [][lastEvent'.op = "json" =>
         \E call \in {calls[i] : i \in 1..Len(calls)} :
             /\ Completed(call)
             /\ (call.stage = "data" /\ call.body.parsable) =>
                  /\ messageHistory' =
                         Append(messageHistory,
                                [role |-> "assistant",
                                 content |->
                                     <<[type |-> "text",
                                        text |-> IF /\ call.body.content # <<>>
                                                    /\ call.body.content[1] # <<>>
                                                 THEN call.body.content[1]
                                                 ELSE <<"No response received.">>]>>])
                  /\ ErrorBubbles(messagesArea') = ErrorBubbles(messagesArea)
      ]_vars

\* C12: whenever a theme is stored under 'theme', the displayed theme is the
\* stored one; a change of the system's colour scheme leaves the displayed
\* theme alone when a theme is stored; and every toggleTheme turns the
\* displayed theme into the other of light and dark and stores the new one.
C12_ThemeFollowsStore ==
    /\ [](storedTheme # <<>> => DisplayedTheme = storedTheme[1])
    /\ [][/\ (lastEvent'.op = "schemeChange" /\ storedTheme # <<>>) =>
               /\ DisplayedTheme' = DisplayedTheme
               /\ storedTheme' = storedTheme
          /\ lastEvent'.op = "toggleTheme" =>
               /\ DisplayedTheme \in {"light", "dark"}
               /\ DisplayedTheme' \in {"light", "dark"} \ {DisplayedTheme}
               /\ storedTheme' = <<DisplayedTheme'>>
         ]_vars

\* C12 witness: the system has just gone over to the light scheme while dark
\* is the stored theme, and dark is still what the page shows.
C12_Witness ==
    /\ lastEvent.op = "schemeChange"
    /\ ~prefersDark
    /\ storedTheme = <<"dark">>
    /\ dataTheme = <<"dark">>

\* the word stands in the text at position j
At(text, j, word) ==
    /\ j >= 1
    /\ j + Len(word) - 1 <= Len(text)
    /\ SubSeq(text, j, j + Len(word) - 1) = word

\* the three tags the formatter generates, and the bold marker
StrongOpen == <<"<", "s", "t", "r", "o", "n", "g", ">">>
StrongClose == <<"<", "/", "s", "t", "r", "o", "n", "g", ">">>
LineBreak == <<"<", "b", "r", ">">>
Marker == <<"*", "*">>

\* the HTML with every generated tag put back as what it stands for: a bold
\* marker for <strong> and </strong>, a newline for <br>
RECURSIVE Untag(_)
Untag(html) ==
    IF html = <<>> THEN <<>>
    ELSE IF At(html, 1, StrongOpen)
    THEN Marker \o Untag(SubSeq(html, Len(StrongOpen) + 1, Len(html)))
    ELSE IF At(html, 1, StrongClose)
    THEN Marker \o Untag(SubSeq(html, Len(StrongClose) + 1, Len(html)))
    ELSE IF At(html, 1, LineBreak)
    THEN <<"\n">> \o Untag(SubSeq(html, Len(LineBreak) + 1, Len(html)))
    ELSE <<Head(html)>> \o Untag(Tail(html))

\* the character an entity at the start of the text stands for, with the
\* length of the entity; a character that is no entity stands for itself
EntityAt(text) ==
    IF At(text, 1, <<"&", "l", "t", ";">>) THEN [char |-> "<", length |-> 4]
    ELSE IF At(text, 1, <<"&", "g", "t", ";">>) THEN [char |-> ">", length |-> 4]
    ELSE IF At(text, 1, <<"&", "a", "m", "p", ";">>) THEN [char |-> "&", length |-> 5]
    ELSE IF At(text, 1, <<"&", "n", "b", "s", "p", ";">>)
    THEN [char |-> "U+00A0", length |-> 6]
    ELSE [char |-> Head(text), length |-> 1]

\* the text a browser shows for escaped text
RECURSIVE Unescape(_)
Unescape(text) ==
    IF text = <<>> THEN <<>>
    ELSE <<EntityAt(text).char>>
         \o Unescape(SubSeq(text, EntityAt(text).length + 1, Len(text)))

\* no character of the text is markup: no < and no >, and every & begins an
\* entity
Escaped(text) ==
    \A j \in 1..Len(text) :
        /\ text[j] \notin {"<", ">"}
        /\ text[j] = "&" => EntityAt(SubSeq(text, j, Len(text))).length > 1

\* no bold marker of the HTML is followed, on its line, by a second marker
\* or by a <strong> element: no **x** span is left unconverted
NoSpanLeft(html) ==
    \A j \in 1..Len(html), k \in 1..Len(html) :
        (/\ At(html, j, Marker)
         /\ k >= j + 2
         /\ At(html, k, Marker) \/ At(html, k, StrongOpen))
        => \E b \in j..k : At(html, b, LineBreak)

\* C13: the HTML formatMessageText returns holds no markup but the <strong>,
\* </strong> and <br> tags it generates: outside these tags there is no < and
\* no >, and every & begins an entity; no newline is left (each has become a
\* <br>) and no **x** span on one line is left (each has become
\* <strong>x</strong>); and putting the markers and newlines back for the
\* tags and unescaping the rest gives the input text back, so that every <,
\* > and & of the input is there in escaped form only.
C13_FormatMessageText ==
    formatted # <<>> =>
        LET html == formatted[1]
        IN  /\ \A j \in 1..Len(html) : html[j] # "\n"
            /\ Escaped(Untag(html))
            /\ NoSpanLeft(html)
            /\ Unescape(Untag(html)) = formatText

\* C13 witness: "**a**<" followed by a newline has been formatted, and the
\* HTML is <strong>a</strong>&lt;<br>.
C13_Witness ==
    /\ formatText = <<"*", "*", "a", "*", "*", "<", "\n">>
    /\ formatted = << <<"<", "s", "t", "r", "o", "n", "g", ">", "a",
                        "<", "/", "s", "t", "r", "o", "n", "g", ">",
                        "&", "l", "t", ";", "<", "b", "r", ">">> >>

\* the first history is the beginning of the second, entry for entry
IsPrefix(before, after) ==
    /\ Len(before) <= Len(after)
    /\ \A k \in 1..Len(before) : after[k] = before[k]

\* C14: an entry of messageHistory never changes once appended: every step
\* that is not a reset of the conversation leaves the history it found as a
\* prefix of the history it leaves, and a step that shortens the history is
\* a reset.
C14_HistoryAppendOnly ==
    [][/\ lastEvent'.op # "clearChat" => IsPrefix(messageHistory, messageHistory')
       /\ Len(messageHistory') < Len(messageHistory) => lastEvent'.op = "clearChat"
      ]_vars

\* C14 witness: a submit has just been accepted on top of an answered
\* exchange: the history is user, assistant, user.
C14_Witness ==
    /\ lastEvent.op \in {"click", "enter"}
    /\ Len(messageHistory) = 3
    /\ messageHistory[1].role = "user"
    /\ messageHistory[2].role = "assistant"
    /\ messageHistory[3].role = "user"
    /\ Len(calls) = 1

\* C15: removeImage leaves no image attached and no preview, whatever the
\* state it is called in, and leaves messageHistory and isLoading as they
\* were; called a second time right after, it changes nothing at all.
C15_RemoveImage ==
    [][lastEvent'.op = "removeImage" =>
         /\ currentImage' = <<>>
         /\ previewSrc' = <<>>
         /\ UNCHANGED <<messageHistory, isLoading>>
         /\ lastEvent.op = "removeImage" => UNCHANGED chatVars
      ]_vars

\* C15 witness: the image was removed while a request was in flight: nothing
\* is attached, and the history and isLoading are as the submit left them.
C15_Witness ==
    /\ lastEvent.op = "removeImage"
    /\ currentImage = <<>>
    /\ previewSrc = <<>>
    /\ isLoading
    /\ Len(messageHistory) = 1
    /\ Len(calls) = 1

\* C16: an empty messageHistory (as a reset leaves it) stays empty until a
\* submit is accepted: no other step, the completion of a request issued
\* before the reset included, appends to it; so a messageHistory that is not
\* empty begins with a user entry.
C16_NoStaleResponse ==
    /\ [][(messageHistory = <<>> /\ messageHistory' # <<>>) => AcceptedSubmitStep]_vars
    /\ [](messageHistory # <<>> => messageHistory[1].role = "user")

\* the step that led to this state cleared the attached image: an accepted
\* submit, removeImage or a reset of the conversation
JustCleared ==
    \/ lastEvent.op \in {"removeImage", "clearChat"}
    \/ lastEvent.op \in {"click", "enter"} /\ lastEvent.accepted

\* this step is a call of handleImageFile: a file chosen or dropped
AttachStep == lastEvent'.op \in {"change", "drop"}

\* C17: once the attached image has been cleared (by an accepted submit, by
\* removeImage or by a reset), nothing is attached until handleImageFile is
\* called again: the step that follows the clearing, unless it is such a
\* call, leaves currentImage empty and no preview showing, so the decode of
\* a file offered before the clearing does not attach it.
C17_NoStaleDecode ==
    [][(JustCleared /\ ~AttachStep) => (currentImage' = <<>> /\ previewSrc' = <<>>)]_vars

\* C18: when two different files are decoding at once and both decodes
\* complete, one right after the other, the image attached in the end is the
\* file offered second, in whichever order the decodes complete: if the
\* decode that completed first had the other one started before it (and
\* still pending), its file stays attached when the other completes.
C18_LastAttachedWins ==
    [][(/\ lastEvent.op = "onload"
        /\ Len(readers) = 1
        /\ readers[1] # lastEvent.file
        /\ lastEvent'.op = "onload"
        /\ readers' = <<>>)
       => currentImage' =
              <<[base64 |-> [mime |-> (IF lastEvent.older = 1
                                       THEN lastEvent.file ELSE readers[1]).type,
                             payload |-> (IF lastEvent.older = 1
                                          THEN lastEvent.file ELSE readers[1]).name],
                 mimeType |-> (IF lastEvent.older = 1
                               THEN lastEvent.file ELSE readers[1]).type]>>
      ]_vars

\* the nodes of this kind among the children of the messages area
NodesOfKind(nodes, kind) == {k \in 1..Len(nodes) : nodes[k].kind = kind}

\* C19: every accepted submit leaves no welcome placeholder in the messages
\* area, the first submit after a reset included; and the placeholder is
\* never in the messages area together with a user or assistant message.
C19_WelcomeRemoved ==
    /\ [][AcceptedSubmitStep => NodesOfKind(messagesArea', "welcome") = {}]_vars
    /\ [](NodesOfKind(messagesArea, "welcome") = {}
          \/ NodesOfKind(messagesArea, "message") = {})

\* the histories sent to the proxy: the body of every request issued
SentHistories == {calls[i].request.messages : i \in 1..Len(calls)}

\* C20 as stated: every history sent to the proxy begins with a user entry,
\* ends with a user entry, and alternates user and assistant in between.
C20_RolesAlternate ==
    \A history \in SentHistories :
        /\ history # <<>>
        /\ history[Len(history)].role = "user"
        /\ \A k \in 1..Len(history) :
               history[k].role = IF k % 2 = 1 THEN "user" ELSE "assistant"

\* C20 amended: every history sent to the proxy ends with a user entry and
\* never has two assistant entries next to each other; two user entries can
\* stand next to each other (the entry of a request that failed stays), and
\* the first entry need not be a user entry.
C20_EndsWithUser ==
    \A history \in SentHistories :
        /\ history # <<>>
        /\ history[Len(history)].role = "user"
        /\ \A k \in 1..(Len(history) - 1) :
               ~(history[k].role = "assistant" /\ history[k + 1].role = "assistant")

\* C20 witness: the request in flight was sent after one that failed: its
\* history is two user entries, the unanswered one and the new one.
C20_Witness ==
    /\ Len(calls) = 1
    /\ calls[1].stage = "fetch"
    /\ Len(calls[1].request.messages) = 2
    /\ calls[1].request.messages[1].role = "user"
    /\ calls[1].request.messages[2].role = "user"
    /\ Cardinality(ErrorBubbles(messagesArea)) = 1

\* C21 as stated: the typing indicator is in the messages area exactly when
\* isLoading is true, there is never more than one, and the send button is
\* disabled exactly when isLoading is true.
C21_IndicatorIffLoading ==
    /\ (NodesOfKind(messagesArea, "typing") # {}) <=> isLoading
    /\ Cardinality(NodesOfKind(messagesArea, "typing")) <= 1
    /\ sendBtnDisabled <=> isLoading

\* C21 amended: the typing indicator is in the messages area only when
\* isLoading is true (isLoading can be true without it: while the body of a
\* response is read, and after a reset made during a request), there is
\* never more than one, and the send button is disabled exactly when
\* isLoading is true.
C21_IndicatorOnlyWhileLoading ==
    /\ (NodesOfKind(messagesArea, "typing") # {}) => isLoading
    /\ Cardinality(NodesOfKind(messagesArea, "typing")) <= 1
    /\ sendBtnDisabled <=> isLoading

\* C21 witness: the user is typing while a request awaits its response: the
\* one typing indicator is the last node, isLoading is true and the send
\* button is disabled.
C21_Witness ==
    /\ lastEvent.op = "input"
    /\ Len(calls) = 1 /\ calls[1].stage = "fetch"
    /\ Cardinality(NodesOfKind(messagesArea, "typing")) = 1
    /\ messagesArea[Len(messagesArea)].kind = "typing"
    /\ isLoading
    /\ sendBtnDisabled

====
